---- MODULE Spec2Model ----
(***************************************************************************)
(* The gesture-to-stroke pipeline of src/App.tsx: the estimator's results  *)
(* callback (onResults) with the helpers it calls (finishPath, drawLive,   *)
(* renderMainCanvas), and the UI handlers that touch the same state        *)
(* (clearCanvas, the brush colour buttons, the brush width slider).        *)
(*                                                                         *)
(* Normalised landmark coordinates are tenths: a coordinate n stands for   *)
(* n/10, so that (1 - x) * width is ((10 - n) * width) \div 10, which is   *)
(* exact for the 1280 x 720 canvases.                                      *)
(***************************************************************************)
EXTENDS Integers, Sequences, FiniteSets, TLC

VARIABLES
    heap,            \* the Point[] array objects, by identity (index)
    currentPathRef,  \* currentPathRef.current: identity of the live array
    pathsRef,        \* pathsRef.current: the DrawingPath records
    colorRef,        \* colorRef.current
    widthRef,        \* widthRef.current
    brushColor,      \* React state brushColor
    brushWidth,      \* React state brushWidth
    gestureMode,     \* React state gestureMode
    analysis,        \* React state analysis
    mainCanvas,      \* what is drawn on the persistent canvas (canvasRef)
    overlay,         \* what is drawn on the feedback canvas (overlayCanvasRef)
    ctxMirrored,     \* feedback context: is the current transform the mirror?
    ctxSaved,        \* feedback context: the stack of saved transforms
    results,         \* the argument of the latest onResults call
    log,             \* the handlers run so far, in order
    isAnalyzing,     \* React state isAnalyzing
    pending,         \* the analyzeSketch calls not yet resolved
    mounted,         \* videoRef, canvasRef and overlayCanvasRef hold elements
    hands,           \* handsRef.current: "none", or an "open"/"closed" estimator
    cameras,         \* the Camera objects created, the last is cameraRef.current
    isCameraReady,   \* React state isCameraReady
    cameraError,     \* React state cameraError
    initCalls,       \* number of initializeCamera calls so far
    inFlight,        \* the hands.send calls not yet settled, oldest first
    ticks,           \* number of onFrame calls so far
    submitted,       \* number of frames handed to hands.send so far
    processed,       \* the frames whose result ran the pipeline, in order
    rejected,        \* the frames whose send rejected without a result
    caught,          \* the errors caught by initializeCamera, in order
    cleanups         \* number of runs of the mount effect's cleanup

analyzeVars == <<isAnalyzing, pending>>

pumpVars == <<mounted, hands, cameras, isCameraReady, cameraError, initCalls,
              inFlight, ticks, submitted, processed, rejected, caught,
              cleanups>>

sketchVars == <<heap, currentPathRef, pathsRef, colorRef, widthRef, brushColor,
                brushWidth, gestureMode, analysis, mainCanvas, overlay,
                ctxMirrored, ctxSaved, results, log>>

vars == <<heap, currentPathRef, pathsRef, colorRef, widthRef, brushColor,
          brushWidth, gestureMode, analysis, mainCanvas, overlay,
          ctxMirrored, ctxSaved, results, log, analyzeVars, pumpVars>>

----------------------------------------------------------------------------
(* Bounds and input domains *)

MaxEvents == 5
MaxGridEvents == 2
MaxAnalyzeEvents == 5
MaxInits == 2
MaxTicks == 3
MaxCleanups == 2

Xs == {0, 3, 7, 10}
Ys == {3, 5, 7}
Colors == {"#ffffff", "#ef4444"}
Widths == {5, 12}

CanvasWidth == 1280
CanvasHeight == 720

DRAWING == "DRAWING"
HOVERING == "HOVERING"
IDLE == "IDLE"
GestureMode == {DRAWING, HOVERING, IDLE}

NoAnalysis == "null"
NoCameraError == <<>>

(* One hand's landmark array: a function from the indices that are present *)
(* to points.  Only landmarks 6, 8 and 12 are read by onResults.           *)
Hand(tx, ty, my, py) ==
    (6 :> [x |-> 5, y |-> py]) @@ (8 :> [x |-> tx, y |-> ty])
                               @@ (12 :> [x |-> 5, y |-> my])

FullHands ==
    { Hand(tx, ty, my, py) : tx \in Xs, ty \in Ys, my \in Ys, py \in Ys }

(* Hand entries with one of the three landmarks absent. *)
PartialHands ==
    { [i \in ({6, 8, 12} \ {k}) |-> [x |-> 5, y |-> 5]] : k \in {6, 8, 12} }

WithHand(h) == [image |-> "frame", multiHandLandmarks |-> <<h>>]

(* The results objects the estimator hands to onResults. *)
Results ==
    { [image |-> "frame"] }
    \cup { [image |-> "frame", multiHandLandmarks |-> <<>>] }
    \cup { WithHand(h) : h \in FullHands \cup PartialHands }

(* One results object of each kind, with two distinct fingertip positions  *)
(* for the drawing posture: the inputs of the long runs.                   *)
SampleResults ==
    { [image |-> "frame", multiHandLandmarks |-> <<>>],
      WithHand(Hand(3, 3, 5, 5)),
      WithHand(Hand(7, 5, 7, 7)),
      WithHand(Hand(3, 3, 3, 5)),
      WithHand(Hand(7, 5, 3, 5)),
      WithHand([i \in {6, 12} |-> [x |-> 5, y |-> 5]]) }

----------------------------------------------------------------------------
(* Helpers of the component *)

LivePoints == heap[currentPathRef]

PathPoints(path) == heap[path.points]

(* renderMainCanvas without the length test of line 42 *)
RenderEveryPath(paths, hp) ==
    [i \in 1..Len(paths) |->
        [points |-> hp[paths[i].points],
         color  |-> paths[i].color,
         width  |-> paths[i].width]]

(* renderMainCanvas: clear, then one polyline per path of 2 or more points *)
RenderMainCanvas(paths, hp) ==
    LET visible == SelectSeq(paths, LAMBDA p : Len(hp[p.points]) >= 2)
    IN  [i \in 1..Len(visible) |->
            [points |-> hp[visible[i].points],
             color  |-> visible[i].color,
             width  |-> visible[i].width]]

(* finishPath testing length > 1 instead of length > 0 *)
FinishPathFromTwo ==
    IF Len(LivePoints) > 1
    THEN LET copy  == Len(heap) + 1
             fresh == Len(heap) + 2
             hp    == heap \o << LivePoints, <<>> >>
             paths == Append(pathsRef, [points |-> copy,
                                        color  |-> colorRef,
                                        width  |-> widthRef])
         IN  /\ heap' = hp
             /\ pathsRef' = paths
             /\ currentPathRef' = fresh
             /\ mainCanvas' = RenderMainCanvas(paths, hp)
    ELSE UNCHANGED <<heap, pathsRef, currentPathRef, mainCanvas>>

(* finishPath without the length test *)
FinishPathUnguarded ==
    LET copy  == Len(heap) + 1
        fresh == Len(heap) + 2
        hp    == heap \o << LivePoints, <<>> >>
        paths == Append(pathsRef, [points |-> copy,
                                   color  |-> colorRef,
                                   width  |-> widthRef])
    IN  /\ heap' = hp
        /\ pathsRef' = paths
        /\ currentPathRef' = fresh
        /\ mainCanvas' = RenderMainCanvas(paths, hp)

(* finishPath pushing the live array itself and emptying it in place *)
FinishPathAliased ==
    IF Len(LivePoints) > 0
    THEN LET paths == Append(pathsRef, [points |-> currentPathRef,
                                        color  |-> colorRef,
                                        width  |-> widthRef])
             hp    == [heap EXCEPT ![currentPathRef] = <<>>]
         IN  /\ heap' = hp
             /\ pathsRef' = paths
             /\ currentPathRef' = currentPathRef
             /\ mainCanvas' = RenderMainCanvas(paths, hp)
    ELSE UNCHANGED <<heap, pathsRef, currentPathRef, mainCanvas>>

(* finishPath: a copy of the live array is pushed with the current style,  *)
(* the live array is replaced by a new empty one, the canvas is redrawn.   *)
FinishPath ==
    IF Len(LivePoints) > 0
    THEN LET copy  == Len(heap) + 1
             fresh == Len(heap) + 2
             hp    == heap \o << LivePoints, <<>> >>
             paths == Append(pathsRef, [points |-> copy,
                                        color  |-> colorRef,
                                        width  |-> widthRef])
         IN  /\ heap' = hp
             /\ pathsRef' = paths
             /\ currentPathRef' = fresh
             /\ mainCanvas' = RenderMainCanvas(paths, hp)
    ELSE UNCHANGED <<heap, pathsRef, currentPathRef, mainCanvas>>

(* drawLive, applied to the live points after the push *)
DrawLive(points) ==
    IF Len(points) < 2
    THEN mainCanvas
    ELSE Append(mainCanvas,
                [points |-> << points[Len(points) - 1], points[Len(points)] >>,
                 color  |-> colorRef,
                 width  |-> widthRef])

(* currentPathRef.current.push with unshift in its place *)
PushPointFront(points, p) == <<p>> \o points

(* currentPathRef.current.push({ x, y }) *)
PushPoint(points, p) == Append(points, p)

isIndexExtended(landmarks) == landmarks[8].y < landmarks[6].y

(* the middle-finger test with <= in place of < *)
isMiddleExtendedOrLevel(landmarks) == landmarks[12].y <= landmarks[6].y

isMiddleExtended(landmarks) == landmarks[12].y < landmarks[6].y

Classify(landmarks) ==
    IF isIndexExtended(landmarks) /\ ~isMiddleExtended(landmarks) THEN DRAWING
    ELSE IF isIndexExtended(landmarks) /\ isMiddleExtended(landmarks) THEN HOVERING
    ELSE IDLE

(* line 111 without the mirror *)
CursorXUnmirrored(landmarks) == (landmarks[8].x * CanvasWidth) \div 10

CursorX(landmarks) == ((10 - landmarks[8].x) * CanvasWidth) \div 10
CursorY(landmarks) == (landmarks[8].y * CanvasHeight) \div 10

(* Where a point drawn at user-space x lands on the feedback canvas. *)
OverlayPixelX(x, mirrored) == IF mirrored THEN CanvasWidth - x ELSE x

HasHand(r) ==
    /\ "multiHandLandmarks" \in DOMAIN r
    /\ Len(r.multiHandLandmarks) > 0

----------------------------------------------------------------------------
Init ==
    /\ heap = << <<>> >>
    /\ currentPathRef = 1
    /\ pathsRef = <<>>
    /\ colorRef = "#ffffff"
    /\ widthRef = 5
    /\ brushColor = "#ffffff"
    /\ brushWidth = 5
    /\ gestureMode = IDLE
    /\ analysis = NoAnalysis
    /\ mainCanvas = <<>>
    /\ overlay = [skeleton |-> <<>>, cursor |-> <<>>]
    /\ ctxMirrored = FALSE
    /\ ctxSaved = <<>>
    /\ results = [image |-> "none"]
    /\ log = <<>>
    /\ isAnalyzing = FALSE
    /\ pending = <<>>
    /\ mounted = TRUE
    /\ hands = "none"
    /\ cameras = <<>>
    /\ isCameraReady = FALSE
    /\ cameraError = NoCameraError
    /\ initCalls = 0
    /\ inFlight = <<>>
    /\ ticks = 0
    /\ submitted = 0
    /\ processed = <<>>
    /\ rejected = <<>>
    /\ caught = <<>>
    /\ cleanups = 0

(* the no-hand branch without its finishPath call *)
OnResultsNoHandKeepsLive(r) ==
    /\ ~HasHand(r)
    /\ gestureMode' = IDLE
    /\ UNCHANGED <<heap, pathsRef, currentPathRef, mainCanvas>>
    /\ overlay' = [skeleton |-> <<>>, cursor |-> <<>>]
    /\ UNCHANGED <<ctxMirrored, ctxSaved>>
    /\ log' = Append(log, [op |-> "onResults", outcome |-> IDLE, pushed |-> <<>>])

(* onResults on a frame without a hand: lines 135-138, then restore. *)
OnResultsNoHand(r) ==
    /\ ~HasHand(r)
    /\ gestureMode' = IDLE
    /\ FinishPath
    /\ overlay' = [skeleton |-> <<>>, cursor |-> <<>>]
    /\ UNCHANGED <<ctxMirrored, ctxSaved>>
    /\ log' = Append(log, [op |-> "onResults", outcome |-> IDLE, pushed |-> <<>>])

(* onResults on a hand whose landmark 6, 8 or 12 is absent: reading .x or  *)
(* .y of undefined throws at line 111, 115 or 116, after save() and the    *)
(* mirror transform and before restore().                                  *)
OnResultsThrows(r) ==
    /\ HasHand(r)
    /\ ~({6, 8, 12} \subseteq DOMAIN r.multiHandLandmarks[1])
    /\ ctxSaved' = Append(ctxSaved, ctxMirrored)
    /\ ctxMirrored' = ~ctxMirrored
    /\ overlay' = [skeleton |-> << ~ctxMirrored >>, cursor |-> <<>>]
    /\ UNCHANGED <<heap, currentPathRef, pathsRef, mainCanvas, gestureMode>>
    /\ log' = Append(log, [op |-> "onResults", outcome |-> "TypeError", pushed |-> <<>>])

(* onResults on a hand with landmarks 6, 8 and 12: lines 100-134. *)
OnResultsHand(r) ==
    /\ HasHand(r)
    /\ {6, 8, 12} \subseteq DOMAIN r.multiHandLandmarks[1]
    /\ LET landmarks == r.multiHandLandmarks[1]
           x == CursorX(landmarks)
           y == CursorY(landmarks)
           mode == Classify(landmarks)
           drawn == ~ctxMirrored    \* the transform in force after line 98
       IN  /\ gestureMode' = mode
           /\ IF mode = DRAWING
              THEN LET points == PushPoint(LivePoints, [x |-> x, y |-> y])
                   IN  /\ heap' = [heap EXCEPT ![currentPathRef] = points]
                       /\ mainCanvas' = DrawLive(points)
                       /\ UNCHANGED <<currentPathRef, pathsRef>>
                       /\ log' = Append(log, [op |-> "onResults", outcome |-> mode,
                                              pushed |-> << [x |-> x, y |-> y] >>])
              ELSE /\ FinishPath
                   /\ log' = Append(log, [op |-> "onResults", outcome |-> mode,
                                          pushed |-> <<>>])
           /\ overlay' = [skeleton |-> << drawn >>,
                          cursor |-> << [x |-> OverlayPixelX(x, drawn), y |-> y,
                                         radius |-> widthRef + 2,
                                         color |-> colorRef] >>]
           /\ UNCHANGED <<ctxMirrored, ctxSaved>>

(* onResults once the canvases are gone: the return of line 88. *)
OnResultsDetached(r) ==
    /\ UNCHANGED <<heap, currentPathRef, pathsRef, mainCanvas, gestureMode,
                   overlay, ctxMirrored, ctxSaved>>
    /\ log' = Append(log, [op |-> "onResults", outcome |-> "returned", pushed |-> <<>>])

OnResults(inputs) ==
    /\ \E r \in inputs :
        /\ results' = r
        /\ \/ ~mounted /\ OnResultsDetached(r)
           \/ mounted /\ OnResultsNoHand(r)
           \/ mounted /\ OnResultsThrows(r)
           \/ mounted /\ OnResultsHand(r)
    /\ UNCHANGED <<colorRef, widthRef, brushColor, brushWidth, analysis>>

(* clearCanvas without line 203 *)
ClearCanvasKeepsLive ==
    /\ pathsRef' = <<>>
    /\ mainCanvas' = RenderMainCanvas(<<>>, heap)
    /\ analysis' = NoAnalysis
    /\ log' = Append(log, [op |-> "clearCanvas"])
    /\ UNCHANGED <<heap, currentPathRef, colorRef, widthRef, brushColor,
                   brushWidth, gestureMode, overlay, ctxMirrored, ctxSaved,
                   results>>

(* clearCanvas *)
ClearCanvas ==
    /\ pathsRef' = <<>>
    /\ heap' = Append(heap, <<>>)
    /\ currentPathRef' = Len(heap) + 1
    /\ mainCanvas' = RenderMainCanvas(<<>>, heap')
    /\ analysis' = NoAnalysis
    /\ log' = Append(log, [op |-> "clearCanvas"])
    /\ UNCHANGED <<colorRef, widthRef, brushColor, brushWidth, gestureMode,
                   overlay, ctxMirrored, ctxSaved, results>>

(* a brush colour button without the effect that syncs colorRef *)
SetBrushColorNoSync ==
    /\ \E c \in Colors \ {brushColor} :
        /\ brushColor' = c
        /\ colorRef' = colorRef
        /\ log' = Append(log, [op |-> "setBrushColor", value |-> c])
    /\ UNCHANGED <<heap, currentPathRef, pathsRef, widthRef, brushWidth,
                   gestureMode, analysis, mainCanvas, overlay, ctxMirrored,
                   ctxSaved, results>>

(* A brush colour button: setBrushColor(c), then the effect of lines 27-29 *)
(* once the component has re-rendered.  The update comes from a click, so  *)
(* React renders and runs the effect before any other callback can run:    *)
(* one step.  Picking the colour already set changes nothing (React bails  *)
(* out), so it is a stuttering step.                                       *)
SetBrushColor ==
    /\ \E c \in Colors \ {brushColor} :
        /\ brushColor' = c
        /\ colorRef' = c
        /\ log' = Append(log, [op |-> "setBrushColor", value |-> c])
    /\ UNCHANGED <<heap, currentPathRef, pathsRef, widthRef, brushWidth,
                   gestureMode, analysis, mainCanvas, overlay, ctxMirrored,
                   ctxSaved, results>>

(* The size slider: setBrushWidth(w), then the effect of lines 31-33, in   *)
(* one step as for the colour.                                             *)
SetBrushWidth ==
    /\ \E w \in Widths \ {brushWidth} :
        /\ brushWidth' = w
        /\ widthRef' = w
        /\ log' = Append(log, [op |-> "setBrushWidth", value |-> w])
    /\ UNCHANGED <<heap, currentPathRef, pathsRef, colorRef, brushColor,
                   gestureMode, analysis, mainCanvas, overlay, ctxMirrored,
                   ctxSaved, results>>

(* handleAnalyze without the test of pathsRef.current.length *)
HandleAnalyzeUnguarded ==
    /\ ~isAnalyzing
    /\ IF ~mounted
       THEN /\ log' = Append(log, [op |-> "handleAnalyze", called |-> FALSE])
            /\ UNCHANGED <<isAnalyzing, pending>>
       ELSE /\ isAnalyzing' = TRUE
            /\ pending' = Append(pending, [dataUrl |-> mainCanvas,
                                           request |-> Len(log) + 1])
            /\ log' = Append(log, [op |-> "handleAnalyze", called |-> TRUE])
    /\ UNCHANGED <<heap, currentPathRef, pathsRef, colorRef, widthRef,
                   brushColor, brushWidth, gestureMode, analysis, mainCanvas,
                   overlay, ctxMirrored, ctxSaved, results>>

(* handleAnalyze up to its await (lines 209-212).  The Analyze button is   *)
(* disabled while isAnalyzing; its other disabling test reads pathsRef as  *)
(* of the latest render, so the click is not tied to it here and the       *)
(* handler's own test decides.                                             *)
HandleAnalyze ==
    /\ ~isAnalyzing
    /\ IF ~mounted \/ Len(pathsRef) = 0
       THEN /\ log' = Append(log, [op |-> "handleAnalyze", called |-> FALSE])
            /\ UNCHANGED <<isAnalyzing, pending>>
       ELSE /\ isAnalyzing' = TRUE
            /\ pending' = Append(pending, [dataUrl |-> mainCanvas,
                                           request |-> Len(log) + 1])
            /\ log' = Append(log, [op |-> "handleAnalyze", called |-> TRUE])
    /\ UNCHANGED <<heap, currentPathRef, pathsRef, colorRef, widthRef,
                   brushColor, brushWidth, gestureMode, analysis, mainCanvas,
                   overlay, ctxMirrored, ctxSaved, results>>

(* handleAnalyze after its await (lines 213-214): analyzeSketch resolved. *)
AnalyzeResolves ==
    /\ Len(pending) > 0
    /\ analysis' = "feedback"
    /\ isAnalyzing' = FALSE
    /\ pending' = Tail(pending)
    /\ log' = Append(log, [op |-> "analyzeResolved",
                           request |-> Head(pending).request])
    /\ UNCHANGED <<heap, currentPathRef, pathsRef, colorRef, widthRef,
                   brushColor, brushWidth, gestureMode, mainCanvas, overlay,
                   ctxMirrored, ctxSaved, results>>

Frame ==
    /\ Len(log) < MaxEvents
    /\ OnResults(SampleResults)
    /\ UNCHANGED <<analyzeVars, pumpVars>>
Clear ==
    /\ Len(log) < MaxEvents
    /\ ClearCanvas
    /\ UNCHANGED <<analyzeVars, pumpVars>>
PickColor ==
    /\ Len(log) < MaxEvents
    /\ SetBrushColor
    /\ UNCHANGED <<analyzeVars, pumpVars>>
PickWidth ==
    /\ Len(log) < MaxEvents
    /\ SetBrushWidth
    /\ UNCHANGED <<analyzeVars, pumpVars>>

Next ==
    \/ Frame
    \/ Clear
    \/ PickColor
    \/ PickWidth

Spec == Init /\ [][Next]_vars

(* The same handlers over every landmark set of the grid, for short runs. *)
GridFrame ==
    /\ Len(log) < MaxGridEvents
    /\ OnResults(Results)
    /\ UNCHANGED <<analyzeVars, pumpVars>>
GridClear ==
    /\ Len(log) < MaxGridEvents
    /\ ClearCanvas
    /\ UNCHANGED <<analyzeVars, pumpVars>>
GridPickColor ==
    /\ Len(log) < MaxGridEvents
    /\ SetBrushColor
    /\ UNCHANGED <<analyzeVars, pumpVars>>
GridPickWidth ==
    /\ Len(log) < MaxGridEvents
    /\ SetBrushWidth
    /\ UNCHANGED <<analyzeVars, pumpVars>>

NextGrid ==
    \/ GridFrame
    \/ GridClear
    \/ GridPickColor
    \/ GridPickWidth

SpecGrid == Init /\ [][NextGrid]_vars

(* Drawing, reset and the Analyze button with its pending request. *)
AnalyzeResults ==
    { [image |-> "frame", multiHandLandmarks |-> <<>>],
      WithHand(Hand(3, 3, 5, 5)),
      WithHand(Hand(7, 5, 7, 7)) }

AnalyzeFrame ==
    /\ Len(log) < MaxAnalyzeEvents
    /\ OnResults(AnalyzeResults)
    /\ UNCHANGED <<analyzeVars, pumpVars>>
AnalyzeClear ==
    /\ Len(log) < MaxAnalyzeEvents
    /\ ClearCanvas
    /\ UNCHANGED <<analyzeVars, pumpVars>>
AnalyzeClick ==
    /\ Len(log) < MaxAnalyzeEvents
    /\ HandleAnalyze
    /\ UNCHANGED pumpVars
AnalyzeDone ==
    /\ Len(log) < MaxAnalyzeEvents
    /\ AnalyzeResolves
    /\ UNCHANGED pumpVars

NextAnalyze ==
    \/ AnalyzeFrame
    \/ AnalyzeClear
    \/ AnalyzeClick
    \/ AnalyzeDone

SpecAnalyze == Init /\ [][NextAnalyze]_vars

-----------------------------------------------------------------------------
(* The camera, the estimator and the frame pump *)

PermissionDenied == <<"Permission", "denied">>

(* The errors a camera start is rejected with: name and message, the      *)
(* message as its words (empty for an absent or empty message).            *)
StartErrors ==
    { [name |-> "NotAllowedError", message |-> PermissionDenied],
      [name |-> "NotAllowedError", message |-> <<>>],
      [name |-> "Error", message |-> <<"Permission", "denied", "by", "system">>],
      [name |-> "Error", message |-> <<"denied", "Permission">>],
      [name |-> "NotFoundError", message |-> <<>>] }

(* String.prototype.includes, on words. *)
Includes(str, pat) ==
    \E i \in 0..(Len(str) - Len(pat)) : SubSeq(str, i + 1, i + Len(pat)) = pat

PermissionMessage ==
    << "Camera permission was denied. Please allow camera access in your browser settings and refresh." >>

FailedMessage(err) ==
    << "Failed to start camera:" >>
        \o (IF err.message = <<>> THEN << "Unknown error" >> ELSE err.message)

(* The message chosen on the error's name alone *)
CameraErrorMessageByName(err) ==
    IF err.name = "NotAllowedError"
    THEN PermissionMessage
    ELSE FailedMessage(err)

(* The message of the catch block, lines 184-188. *)
CameraErrorMessage(err) ==
    IF err.name = "NotAllowedError" \/ Includes(err.message, PermissionDenied)
    THEN PermissionMessage
    ELSE FailedMessage(err)

(* initializeCamera up to its await (lines 144-178). *)
InitializeCamera ==
    /\ initCalls' = initCalls + 1
    /\ cameraError' = NoCameraError
    /\ \/ (* window.Hands or window.Camera is missing: the return of line 145 *)
          UNCHANGED <<hands, cameras>>
       \/ /\ hands' = IF hands = "none" THEN "open" ELSE hands
          /\ cameras' = IF mounted
                        THEN Append(cameras, [status |-> "starting", awaiting |-> FALSE])
                        ELSE cameras
    /\ UNCHANGED <<mounted, isCameraReady, inFlight, ticks, submitted, processed,
                   rejected, caught, cleanups>>

(* camera.start() resolved: line 180.  State setters of an unmounted       *)
(* component have no effect.                                               *)
StartResolves ==
    /\ \E i \in DOMAIN cameras :
        /\ cameras[i].status = "starting"
        /\ cameras' = [cameras EXCEPT ![i].status = "running"]
    /\ isCameraReady' = IF mounted THEN TRUE ELSE isCameraReady
    /\ UNCHANGED <<mounted, hands, cameraError, initCalls, inFlight, ticks,
                   submitted, processed, rejected, caught, cleanups>>

(* camera.start() rejected with err: the catch block, lines 182-190. *)
StartRejects ==
    /\ \E i \in DOMAIN cameras, err \in StartErrors :
        /\ cameras[i].status = "starting"
        /\ cameras' = [cameras EXCEPT ![i].status = "failed"]
        /\ caught' = Append(caught, err)
        /\ cameraError' = IF mounted THEN CameraErrorMessage(err) ELSE cameraError
    /\ isCameraReady' = IF mounted THEN FALSE ELSE isCameraReady
    /\ UNCHANGED <<mounted, hands, initCalls, inFlight, ticks, submitted,
                   processed, rejected, cleanups>>

(* onFrame that does not await the send *)
OnFrameNoAwait(i) ==
    IF mounted /\ hands # "none"
    THEN /\ submitted' = submitted + 1
         /\ inFlight' = Append(inFlight, [frame |-> submitted + 1, cam |-> i])
         /\ UNCHANGED cameras
    ELSE UNCHANGED <<submitted, inFlight, cameras>>

(* onFrame without the test of videoRef.current *)
OnFrameNoRefTest(i) ==
    IF hands # "none"
    THEN /\ submitted' = submitted + 1
         /\ inFlight' = Append(inFlight, [frame |-> submitted + 1, cam |-> i])
         /\ cameras' = [cameras EXCEPT ![i].awaiting = TRUE]
    ELSE UNCHANGED <<submitted, inFlight, cameras>>

(* onFrame of camera i up to its await (lines 165-168): the frame is sent  *)
(* and the camera waits for onFrame's promise before its next tick.        *)
OnFrame(i) ==
    IF mounted /\ hands # "none"
    THEN /\ submitted' = submitted + 1
         /\ inFlight' = Append(inFlight, [frame |-> submitted + 1, cam |-> i])
         /\ cameras' = [cameras EXCEPT ![i].awaiting = TRUE]
    ELSE UNCHANGED <<submitted, inFlight, cameras>>

Remove(seq, k) == SubSeq(seq, 1, k - 1) \o SubSeq(seq, k + 1, Len(seq))

(* The send of inFlight[k] resolved: onFrame returns. *)
SendDone(k) ==
    /\ inFlight' = Remove(inFlight, k)
    /\ cameras' = [cameras EXCEPT ![inFlight[k].cam].awaiting = FALSE]
    /\ UNCHANGED rejected

(* A rejected send that is not caught: onFrame's promise rejects and the   *)
(* camera schedules no further tick.                                       *)
SendFailedUncaught(k) ==
    /\ inFlight' = Remove(inFlight, k)
    /\ rejected' = Append(rejected, inFlight[k].frame)
    /\ UNCHANGED cameras

(* The send of inFlight[k] rejected: caught and logged (lines 169-171),    *)
(* onFrame returns.                                                        *)
SendFailed(k) ==
    /\ inFlight' = Remove(inFlight, k)
    /\ rejected' = Append(rejected, inFlight[k].frame)
    /\ cameras' = [cameras EXCEPT ![inFlight[k].cam].awaiting = FALSE]

PumpResults ==
    { [image |-> "frame", multiHandLandmarks |-> <<>>],
      WithHand(Hand(3, 3, 5, 5)),
      WithHand([i \in {6, 12} |-> [x |-> 5, y |-> 5]]) }

(* The initial run of the mount effect (line 194). *)
Mount ==
    /\ mounted
    /\ initCalls = 0
    /\ InitializeCamera
    /\ UNCHANGED <<sketchVars, analyzeVars>>

(* The Retry button, rendered while cameraError is set (lines 228, 238). *)
Retry ==
    /\ mounted
    /\ cameraError # NoCameraError
    /\ initCalls < MaxInits
    /\ InitializeCamera
    /\ UNCHANGED <<sketchVars, analyzeVars>>

StartOk ==
    /\ StartResolves
    /\ UNCHANGED <<sketchVars, analyzeVars>>

StartFails ==
    /\ StartRejects
    /\ UNCHANGED <<sketchVars, analyzeVars>>

(* A running camera has a new frame and is not waiting for onFrame. *)
CameraTick ==
    /\ ticks < MaxTicks
    /\ \E i \in DOMAIN cameras :
        /\ cameras[i].status = "running"
        /\ ~cameras[i].awaiting
        /\ OnFrame(i)
    /\ ticks' = ticks + 1
    /\ UNCHANGED <<mounted, hands, isCameraReady, cameraError, initCalls,
                   processed, rejected, caught, cleanups>>
    /\ UNCHANGED <<sketchVars, analyzeVars>>

(* The estimator yields the result of a frame in flight: onResults runs    *)
(* inside the awaited send.  An exception of onResults leaves the send as  *)
(* one that failed.                                                        *)
SendResolves ==
    /\ \E k \in DOMAIN inFlight :
        /\ OnResults(PumpResults)
        /\ LET outcome == log'[Len(log')].outcome
           IN  /\ IF outcome = "TypeError" THEN SendFailed(k) ELSE SendDone(k)
               /\ processed' = IF outcome \in GestureMode
                               THEN Append(processed, inFlight[k])
                               ELSE processed
    /\ UNCHANGED <<mounted, hands, isCameraReady, cameraError, initCalls, ticks,
                   submitted, caught, cleanups>>
    /\ UNCHANGED analyzeVars

(* The estimator rejects the send of a frame in flight without a result. *)
SendRejects ==
    /\ \E k \in DOMAIN inFlight : SendFailed(k)
    /\ UNCHANGED <<mounted, hands, isCameraReady, cameraError, initCalls, ticks,
                   submitted, processed, caught, cleanups>>
    /\ UNCHANGED <<sketchVars, analyzeVars>>

(* The component is removed: React sets the element refs to null. *)
Unmount ==
    /\ mounted
    /\ initCalls >= 1
    /\ mounted' = FALSE
    /\ UNCHANGED <<hands, cameras, isCameraReady, cameraError, initCalls,
                   inFlight, ticks, submitted, processed, rejected, caught,
                   cleanups>>
    /\ UNCHANGED <<sketchVars, analyzeVars>>

(* The cleanup of the mount effect (lines 196-198). *)
Cleanup ==
    /\ ~mounted
    /\ cleanups < MaxCleanups
    /\ cleanups' = cleanups + 1
    /\ hands' = IF hands # "none" THEN "closed" ELSE hands
    /\ UNCHANGED <<mounted, cameras, isCameraReady, cameraError, initCalls,
                   inFlight, ticks, submitted, processed, rejected, caught>>
    /\ UNCHANGED <<sketchVars, analyzeVars>>

NextPump ==
    \/ Mount
    \/ Retry
    \/ StartOk
    \/ StartFails
    \/ CameraTick
    \/ SendResolves
    \/ SendRejects
    \/ Unmount
    \/ Cleanup

SpecPump == Init /\ [][NextPump]_vars

----------------------------------------------------------------------------
(* Vocabulary of the properties *)

IsFrame(e) == e.op = "onResults"
IsDrawingFrame(e) == IsFrame(e) /\ e.outcome = DRAWING
IsNonDrawingFrame(e) == IsFrame(e) /\ e.outcome \in {HOVERING, IDLE}
IsThrowingFrame(e) == IsFrame(e) /\ e.outcome = "TypeError"
IsClear(e) == e.op = "clearCanvas"

(* The step just taken ran a handler (every handler adds one log entry). *)
Ran == Len(log') = Len(log) + 1
Latest == log'[Len(log')]

(* The point sequences of the strokes on the drawing surface, in order. *)
SurfacePoints == [i \in 1..Len(pathsRef) |-> PathPoints(pathsRef[i])]

(* The fingertip of a results object in canvas space (lines 111-112). *)
Fingertip(r) ==
    [x |-> ((10 - r.multiHandLandmarks[1][8].x) * 1280) \div 10,
     y |-> (r.multiHandLandmarks[1][8].y * 720) \div 10]

(* The handlers run since the latest clearCanvas. *)
LastClear ==
    LET cs == { i \in 1..Len(log) : IsClear(log[i]) }
    IN  IF cs = {} THEN 0 ELSE CHOOSE i \in cs : \A j \in cs : j <= i
SinceClear == SubSeq(log, LastClear + 1, Len(log))

(* The runs of consecutive DRAWING frames of a sequence of events that a   *)
(* non-DRAWING frame has ended: one point sequence per run, in run order.  *)
RECURSIVE EndedRuns(_, _)
EndedRuns(events, run) ==
    IF Len(events) = 0 THEN <<>>
    ELSE LET e == Head(events)
         IN  IF IsDrawingFrame(e)
             THEN EndedRuns(Tail(events), run \o e.pushed)
             ELSE IF IsNonDrawingFrame(e)
             THEN (IF Len(run) = 0 THEN <<>> ELSE <<run>>)
                  \o EndedRuns(Tail(events), <<>>)
             ELSE EndedRuns(Tail(events), run)

(* What each handler run so far was: a frame's outcome, or the handler. *)
Outcomes ==
    [i \in 1..Len(log) |->
        IF IsFrame(log[i]) THEN log[i].outcome ELSE log[i].op]

----------------------------------------------------------------------------
(* C1 as stated: every stroke on the drawing surface has at least 2       *)
(* points, so a single DRAWING frame followed by a non-DRAWING frame      *)
(* appends nothing.                                                        *)
C1_EveryStrokeHasTwoPoints ==
    \A i \in 1..Len(pathsRef) : Len(PathPoints(pathsRef[i])) >= 2

(* C1 amended: every stroke on the drawing surface has at least 1 point;  *)
(* a single DRAWING frame followed by a non-DRAWING frame appends a       *)
(* one-point stroke; and every polyline drawn on the persistent canvas    *)
(* has at least 2 points, a one-point stroke leaving no mark.             *)
C1_StrokesNonEmptyAndDrawnFromTwo ==
    /\ \A i \in 1..Len(pathsRef) : Len(PathPoints(pathsRef[i])) >= 1
    /\ \A i \in 1..Len(mainCanvas) : Len(mainCanvas[i].points) >= 2
    /\ (/\ Len(log) >= 2
        /\ IsNonDrawingFrame(log[Len(log)])
        /\ IsDrawingFrame(log[Len(log) - 1])
        /\ (Len(log) = 2 \/ IsNonDrawingFrame(log[Len(log) - 2])))
       => /\ Len(pathsRef) >= 1
          /\ PathPoints(pathsRef[Len(pathsRef)]) = log[Len(log) - 1].pushed

C1_Witness ==
    /\ Outcomes = <<DRAWING, IDLE, DRAWING, DRAWING, HOVERING>>
    /\ Len(pathsRef) = 2
    /\ Len(PathPoints(pathsRef[1])) = 1
    /\ Len(mainCanvas) = 1
    /\ mainCanvas[1].points = PathPoints(pathsRef[2])

(* C2: a DRAWING frame appends its fingertip to the end of LiveStroke and  *)
(* leaves the drawing surface as it was, so that N consecutive DRAWING     *)
(* frames from an empty LiveStroke leave exactly their N points in frame   *)
(* order; a non-DRAWING frame that finds N >= 1 points in LiveStroke       *)
(* appends exactly one stroke holding those points in the same order and   *)
(* leaves LiveStroke empty.                                                *)
C2_DrawingStep ==
    (Ran /\ IsDrawingFrame(Latest))
    => /\ heap'[currentPathRef'] = Append(LivePoints, Fingertip(results'))
       /\ pathsRef' = pathsRef
       /\ SurfacePoints' = SurfacePoints

C2_FinalizingStep ==
    (Ran /\ IsNonDrawingFrame(Latest) /\ Len(LivePoints) >= 1)
    => /\ Len(pathsRef') = Len(pathsRef) + 1
       /\ SubSeq(SurfacePoints', 1, Len(pathsRef)) = SurfacePoints
       /\ SurfacePoints'[Len(pathsRef')] = LivePoints
       /\ heap'[currentPathRef'] = <<>>

C2_RunBecomesOneStroke == [][C2_DrawingStep /\ C2_FinalizingStep]_vars

C2_Witness ==
    /\ Len(log) = 3
    /\ IsDrawingFrame(log[1])
    /\ IsDrawingFrame(log[2])
    /\ IsNonDrawingFrame(log[3])
    /\ log[1].pushed # log[2].pushed
    /\ Len(pathsRef) = 1
    /\ PathPoints(pathsRef[1]) = log[1].pushed \o log[2].pushed
    /\ LivePoints = <<>>

(* C3: when no frame since the latest reset threw, the strokes on the      *)
(* drawing surface are exactly the runs of consecutive DRAWING frames      *)
(* that a non-DRAWING frame has ended, one stroke per run, in run order;   *)
(* after the frames DRAWING, IDLE, DRAWING, DRAWING, IDLE from the         *)
(* initial state the surface holds 2 strokes, the second of 2 points.      *)
C3_OneStrokePerEndedRun ==
    /\ (\A i \in 1..Len(SinceClear) : ~IsThrowingFrame(SinceClear[i]))
       => SurfacePoints = EndedRuns(SinceClear, <<>>)
    /\ Outcomes = <<DRAWING, IDLE, DRAWING, DRAWING, IDLE>>
       => /\ Len(pathsRef) = 2
          /\ Len(PathPoints(pathsRef[2])) = 2

C3_Witness ==
    /\ Outcomes = <<DRAWING, IDLE, DRAWING, DRAWING, IDLE>>
    /\ Len(pathsRef) = 2
    /\ Len(PathPoints(pathsRef[1])) = 1
    /\ Len(PathPoints(pathsRef[2])) = 2

(* C4: a non-DRAWING frame processed while LiveStroke is empty changes     *)
(* neither the drawing surface (its length, its strokes' points, colours   *)
(* and widths) nor LiveStroke.                                             *)
C4_Step ==
    (Ran /\ IsNonDrawingFrame(Latest) /\ Len(LivePoints) = 0)
    => /\ pathsRef' = pathsRef
       /\ SurfacePoints' = SurfacePoints
       /\ currentPathRef' = currentPathRef
       /\ heap'[currentPathRef'] = <<>>

C4_FinalizeOnEmptyIsNoOp == [][C4_Step]_vars

C4_Witness ==
    /\ Outcomes = <<DRAWING, DRAWING, IDLE, HOVERING, IDLE>>
    /\ Len(pathsRef) = 1
    /\ Len(PathPoints(pathsRef[1])) = 2
    /\ LivePoints = <<>>

(* C5: right after clearCanvas both LiveStroke and the drawing surface are *)
(* empty, whatever the state before it, and nothing is drawn on the        *)
(* persistent canvas.                                                      *)
C5_ResetEmptiesBoth ==
    (Len(log) >= 1 /\ IsClear(log[Len(log)]))
    => /\ pathsRef = <<>>
       /\ LivePoints = <<>>
       /\ mainCanvas = <<>>

C5_Witness ==
    /\ Outcomes = <<DRAWING, DRAWING, IDLE, DRAWING, "clearCanvas">>
    /\ pathsRef = <<>>
    /\ LivePoints = <<>>

(* The latest results object carries a hand with landmarks 6, 8 and 12. *)
FullHandSeen ==
    /\ "multiHandLandmarks" \in DOMAIN results
    /\ Len(results.multiHandLandmarks) > 0
    /\ {6, 8, 12} \subseteq DOMAIN results.multiHandLandmarks[1]

(* The latest results object carries no hand at all. *)
NoHandSeen ==
    \/ "multiHandLandmarks" \notin DOMAIN results
    \/ Len(results.multiHandLandmarks) = 0

(* The latest results object carries a hand without landmark 6, 8 or 12. *)
PartialHandSeen ==
    /\ "multiHandLandmarks" \in DOMAIN results
    /\ Len(results.multiHandLandmarks) > 0
    /\ ~({6, 8, 12} \subseteq DOMAIN results.multiHandLandmarks[1])

TipY == results.multiHandLandmarks[1][8].y
MiddleY == results.multiHandLandmarks[1][12].y
PipY == results.multiHandLandmarks[1][6].y

FrameJustProcessed ==
    /\ Len(log) >= 1
    /\ IsFrame(log[Len(log)])

(* C6: after a frame with a full landmark set the mode is DRAWING exactly  *)
(* when indexTip.y < indexPip.y and middleTip.y >= indexPip.y, HOVERING    *)
(* exactly when both tips are above the joint, IDLE in every other case;   *)
(* after a frame with no hand it is IDLE; the mode is always one of the    *)
(* three.                                                                  *)
C6_ClassificationByThreeYs ==
    /\ gestureMode \in GestureMode
    /\ (FrameJustProcessed /\ FullHandSeen)
       => /\ (gestureMode = DRAWING) <=> (TipY < PipY /\ MiddleY >= PipY)
          /\ (gestureMode = HOVERING) <=> (TipY < PipY /\ MiddleY < PipY)
          /\ (gestureMode = IDLE) <=> (TipY >= PipY)
    /\ (FrameJustProcessed /\ NoHandSeen) => gestureMode = IDLE

C6_Witness ==
    /\ Len(log) = 2
    /\ IsFrame(log[1])
    /\ log[1].outcome = HOVERING
    /\ IsFrame(log[2])
    /\ FullHandSeen
    /\ TipY < PipY
    /\ MiddleY = PipY
    /\ gestureMode = DRAWING

(* C7: whenever the mode is not DRAWING LiveStroke is empty, and right     *)
(* after a frame classified HOVERING or IDLE (no hand included) the mode   *)
(* is that classification and LiveStroke is empty.                         *)
C7_NonDrawingLeavesLiveStrokeEmpty ==
    /\ gestureMode # DRAWING => LivePoints = <<>>
    /\ (Len(log) >= 1 /\ IsNonDrawingFrame(log[Len(log)]))
       => /\ gestureMode = log[Len(log)].outcome
          /\ LivePoints = <<>>

C7_Witness ==
    /\ Outcomes = <<DRAWING, DRAWING, IDLE>>
    /\ NoHandSeen
    /\ gestureMode = IDLE
    /\ LivePoints = <<>>
    /\ Len(pathsRef) = 1

(* The colour and width the UI set most recently, from the log alone. *)
LatestValue(op, initial) ==
    LET at == { i \in 1..Len(log) : log[i].op = op }
    IN  IF at = {} THEN initial
        ELSE log[CHOOSE i \in at : \A j \in at : j <= i].value

(* C8: the stroke a frame finalizes carries the colour and width the UI    *)
(* set most recently before that frame, whatever they were when the        *)
(* stroke's first point was appended.                                      *)
C8_Step ==
    (Ran /\ IsFrame(Latest) /\ Len(pathsRef') = Len(pathsRef) + 1)
    => /\ pathsRef'[Len(pathsRef')].color = LatestValue("setBrushColor", "#ffffff")
       /\ pathsRef'[Len(pathsRef')].width = LatestValue("setBrushWidth", 5)
       /\ pathsRef'[Len(pathsRef')].color = brushColor
       /\ pathsRef'[Len(pathsRef')].width = brushWidth

C8_StyleBoundAtFinalize == [][C8_Step]_vars

C8_Witness ==
    /\ Outcomes = <<DRAWING, "setBrushColor", DRAWING, "setBrushWidth", IDLE>>
    /\ Len(pathsRef) = 1
    /\ Len(PathPoints(pathsRef[1])) = 2
    /\ pathsRef[1].color = "#ef4444"
    /\ pathsRef[1].width = 12

(* No array is shared: the live array is not the points array of a stroke  *)
(* on the surface, and no two strokes share a points array.                *)
NoSharedArray ==
    /\ \A i \in 1..Len(pathsRef) : pathsRef[i].points # currentPathRef
    /\ \A i, j \in 1..Len(pathsRef) :
          i # j => pathsRef[i].points # pathsRef[j].points

(* C9: every step other than clearCanvas keeps each stroke already on the  *)
(* surface in its place with its points, colour and width, and after       *)
(* every step the live array is not the points array of any stroke.        *)
C9_Step ==
    /\ NoSharedArray'
    /\ (Ran /\ ~IsClear(Latest))
       => /\ Len(pathsRef') >= Len(pathsRef)
          /\ \A i \in 1..Len(pathsRef) :
                /\ heap'[pathsRef'[i].points] = heap[pathsRef[i].points]
                /\ pathsRef'[i].color = pathsRef[i].color
                /\ pathsRef'[i].width = pathsRef[i].width

C9_SurfaceAppendOnly == [][C9_Step]_vars

C9_Witness ==
    /\ Outcomes = <<DRAWING, HOVERING, "setBrushColor", DRAWING, IDLE>>
    /\ Len(pathsRef) = 2
    /\ pathsRef[1].color = "#ffffff"
    /\ pathsRef[2].color = "#ef4444"
    /\ PathPoints(pathsRef[1]) = log[1].pushed
    /\ PathPoints(pathsRef[2]) = log[4].pushed

(* C10 as stated: a frame whose hand entry lacks landmark 6, 8 or 12 is    *)
(* handled like a frame with no hand; in particular, when it follows a     *)
(* DRAWING frame, right after it the mode is IDLE, LiveStroke is empty    *)
(* and its points are a stroke on the drawing surface.                     *)
C10_PartialHandHandledAsNoHand ==
    (/\ FrameJustProcessed
     /\ PartialHandSeen
     /\ Len(log) >= 2
     /\ IsDrawingFrame(log[Len(log) - 1]))
    => /\ gestureMode = IDLE
       /\ LivePoints = <<>>
       /\ Len(pathsRef) >= 1

(* The latest frame was classified DRAWING and pushed its fingertip. *)
DrawingFrameJustProcessed ==
    /\ FrameJustProcessed
    /\ IsDrawingFrame(log[Len(log)])

(* C15: the point a DRAWING frame appends to LiveStroke is the mirrored,   *)
(* scaled fingertip, x = (1 - indexTip.x) * 1280 and y = indexTip.y * 720, *)
(* for every fingertip position of the grid, 0 and 1 included; for         *)
(* indexTip.x = 0.3 it is x = 896.                                         *)
C15_PointIsMirroredFingertip ==
    DrawingFrameJustProcessed
    => LET tip == results.multiHandLandmarks[1][8]
           p   == LivePoints[Len(LivePoints)]
       IN  /\ 10 * p.x = (10 - tip.x) * 1280
           /\ 10 * p.y = tip.y * 720
           /\ tip.x = 3 => p.x = 896
           /\ tip.x = 0 => p.x = 1280
           /\ tip.x = 10 => p.x = 0

C15_Witness ==
    /\ DrawingFrameJustProcessed
    /\ results.multiHandLandmarks[1][8].x = 3
    /\ results.multiHandLandmarks[1][8].y = 5
    /\ LivePoints = << [x |-> 1280, y |-> 216], [x |-> 896, y |-> 360] >>

(* C16 as stated: after a frame with a detected hand the cursor circle on  *)
(* the feedback layer is at the pixel of the fingertip point, the point a  *)
(* DRAWING frame appends to LiveStroke and draws on the persistent layer.  *)
C16_CursorAtStrokeTip ==
    DrawingFrameJustProcessed
    => /\ Len(overlay.cursor) = 1
       /\ overlay.cursor[1].x = LivePoints[Len(LivePoints)].x
       /\ overlay.cursor[1].y = LivePoints[Len(LivePoints)].y

(* The points on the surface and in LiveStroke, in the order appended. *)
RECURSIVE Flatten(_)
Flatten(seqs) ==
    IF Len(seqs) = 0 THEN <<>> ELSE Head(seqs) \o Flatten(Tail(seqs))

(* The points the DRAWING frames of a sequence of events pushed. *)
RECURSIVE Pushed(_)
Pushed(events) ==
    IF Len(events) = 0 THEN <<>>
    ELSE (IF IsDrawingFrame(Head(events)) THEN Head(events).pushed ELSE <<>>)
         \o Pushed(Tail(events))

(* C18: the points held by the drawing surface and LiveStroke together are *)
(* exactly the points sampled since the latest reset, in order, so a       *)
(* stroke finalized after a reset made in the middle of drawing holds      *)
(* only points sampled after the reset.                                    *)
C18_OnlyPointsSinceReset ==
    Flatten(SurfacePoints) \o LivePoints = Pushed(SinceClear)

C18_Witness ==
    /\ Outcomes = <<DRAWING, DRAWING, "clearCanvas", DRAWING, IDLE>>
    /\ Len(pathsRef) = 1
    /\ PathPoints(pathsRef[1]) = log[4].pushed
    /\ LivePoints = <<>>

(* C20 as stated: between onResults invocations the feedback context has   *)
(* no leftover mirror transform and no unmatched save, also after an       *)
(* invocation that ended by an exception.                                  *)
C20_ContextRestored ==
    /\ ctxMirrored = FALSE
    /\ ctxSaved = <<>>

IsAnalyzeClick(e) == e.op = "handleAnalyze"
IsAnalyzeResolved(e) == e.op = "analyzeResolved"

(* C17: analyzeSketch is called only in a step of the Analyze action, and  *)
(* only while the drawing surface holds at least one stroke; no frame,     *)
(* finalization or reset adds a call.                                      *)
C17_Step ==
    (pending' # pending /\ Len(pending') >= Len(pending))
    => /\ Ran
       /\ IsAnalyzeClick(Latest)
       /\ Len(pathsRef) > 0
       /\ Len(pending') = Len(pending) + 1

C17_AnalyzeOnlyOnRequest == [][C17_Step]_vars

C17_Witness ==
    /\ Outcomes = <<"handleAnalyze", DRAWING, IDLE, "handleAnalyze">>
    /\ log[1].called = FALSE
    /\ log[4].called = TRUE
    /\ Len(pathsRef) = 1
    /\ Len(pending) = 1
    /\ isAnalyzing

(* C19 as stated: whenever analysis feedback is shown, the request that    *)
(* produced it was started after the latest reset.                         *)
C19_NoFeedbackFromBeforeReset ==
    analysis # NoAnalysis
    => LET done == { i \in 1..Len(log) : IsAnalyzeResolved(log[i]) }
           last == CHOOSE i \in done : \A j \in done : j <= i
       IN  log[last].request > LastClear

(* The frames whose result ran the pipeline, by number. *)
ProcessedFrames == [i \in DOMAIN processed |-> processed[i].frame]

(* The onResults calls that ran the pipeline to its end. *)
PipelineRuns == { i \in DOMAIN log : IsFrame(log[i]) /\ log[i].outcome \in GestureMode }

Running == { c \in DOMAIN cameras : cameras[c].status = "running" }

(* C11: frames pass through the pipeline in submission order and without  *)
(* overlap: at most one send is in flight, results are processed in the    *)
(* order their frames were submitted, each processed result is one run of  *)
(* the pipeline, and this holds after the camera is initialized again by   *)
(* the retry action (at most one camera runs, and a camera waits exactly   *)
(* while its frame is in flight).                                          *)
C11_FifoNoOverlap ==
    /\ Len(inFlight) <= 1
    /\ \A i, j \in DOMAIN processed :
          i < j => processed[i].frame < processed[j].frame
    /\ \A k \in DOMAIN inFlight, i \in DOMAIN processed :
          processed[i].frame < inFlight[k].frame
    /\ \A k \in DOMAIN inFlight : inFlight[k].frame = submitted
    /\ Cardinality(PipelineRuns) = Len(processed)
    /\ Cardinality(Running) <= 1
    /\ \A c \in DOMAIN cameras :
          cameras[c].awaiting <=> \E k \in DOMAIN inFlight : inFlight[k].cam = c

C11_Witness ==
    /\ initCalls = 2
    /\ Len(cameras) = 2
    /\ cameras[1].status = "failed"
    /\ cameras[2].status = "running"
    /\ ProcessedFrames = <<1, 2>>
    /\ Len(inFlight) = 1
    /\ inFlight[1].frame = 3
    /\ inFlight[1].cam = 2

(* C12: once the cleanup of the mount effect has run, no frame is handed   *)
(* to the estimator and no result runs the pipeline: a result that arrives *)
(* is returned from at the top of onResults and changes no stroke and no   *)
(* canvas; a second run of the cleanup changes nothing.                    *)
C12_Step ==
    cleanups >= 1
    => /\ submitted' = submitted
       /\ processed' = processed
       /\ UNCHANGED <<heap, currentPathRef, pathsRef, mainCanvas, overlay,
                      gestureMode, ctxMirrored, ctxSaved>>
       /\ Ran => IsFrame(Latest) /\ Latest.outcome = "returned"
       /\ cleanups' # cleanups
          => UNCHANGED <<sketchVars, analyzeVars, mounted, hands, cameras,
                         isCameraReady, cameraError, initCalls, inFlight, ticks,
                         submitted, processed, rejected, caught>>

C12_NothingAfterShutdown == [][C12_Step]_vars

C12_Witness ==
    /\ cleanups = 2
    /\ hands = "closed"
    /\ ticks = 3
    /\ submitted = 2
    /\ ProcessedFrames = <<1>>
    /\ rejected = <<>>
    /\ inFlight = <<>>
    /\ Outcomes = <<DRAWING, "returned">>
    /\ Len(LivePoints) = 1

(* C13: a frame whose send rejects (with or without an exception of        *)
(* onResults) changes neither the live stroke nor the drawing surface, is  *)
(* caught so that its camera goes on, and the frames after it are          *)
(* submitted and processed as usual: a DRAWING result appends its point.   *)
C13_Step ==
    /\ rejected' # rejected
       => /\ Len(rejected') = Len(rejected) + 1
          /\ UNCHANGED <<heap, currentPathRef, pathsRef>>
          /\ Len(inFlight') = Len(inFlight) - 1
          /\ \A c \in DOMAIN cameras :
                /\ cameras'[c].status = cameras[c].status
                /\ ~cameras'[c].awaiting
    /\ (rejected # <<>> /\ Ran /\ IsDrawingFrame(Latest))
       => /\ LivePoints' = Append(LivePoints, Fingertip(results'))
          /\ Len(processed') = Len(processed) + 1
          /\ \A i \in DOMAIN rejected :
                rejected[i] < processed'[Len(processed')].frame

C13_RejectedFrameIsSkipped == [][C13_Step]_vars

C13_Witness ==
    /\ rejected = <<1, 2>>
    /\ ProcessedFrames = <<3>>
    /\ Outcomes = <<"TypeError", DRAWING>>
    /\ LivePoints = << [x |-> 896, y |-> 216] >>
    /\ Running = {1}
    /\ ~cameras[1].awaiting

(* What C14 asks of a state: isCameraReady and a set cameraError never     *)
(* hold together, and while cameraError is set no camera runs or starts    *)
(* and no frame is in flight or has been processed by a failed camera.     *)
C14_State ==
    /\ ~(isCameraReady /\ cameraError # NoCameraError)
    /\ cameraError # NoCameraError
       => /\ \A c \in DOMAIN cameras : cameras[c].status = "failed"
          /\ inFlight = <<>>
    /\ \A c \in DOMAIN cameras :
          cameras[c].status # "running"
          => /\ ~cameras[c].awaiting
             /\ \A i \in DOMAIN processed : processed[i].cam # c

(* C14: when camera start fails, cameraError becomes the permission        *)
(* message exactly when the error is named NotAllowedError or its message  *)
(* contains 'Permission denied', and the distinct 'Failed to start camera' *)
(* message otherwise; isCameraReady is false; the failed camera processes  *)
(* no frame; the retry action runs initializeCamera again and clears the   *)
(* error; isCameraReady and a set cameraError never hold together.         *)
C14_Step ==
    /\ C14_State
    /\ C14_State'
    /\ (Len(caught') > Len(caught) /\ mounted)
       => LET err == caught'[Len(caught')]
              denied == \/ err.name = "NotAllowedError"
                        \/ \E i \in 1..(Len(err.message) - 1) :
                              /\ err.message[i] = "Permission"
                              /\ err.message[i + 1] = "denied"
          IN  /\ cameraError' # NoCameraError
              /\ denied <=> cameraError' = PermissionMessage
              /\ ~denied => /\ cameraError'[1] = "Failed to start camera:"
                            /\ Len(cameraError') >= 2
              /\ ~isCameraReady'
              /\ submitted' = submitted
              /\ processed' = processed
    /\ (initCalls >= 1 /\ initCalls' # initCalls)
       => /\ cameraError # NoCameraError
          /\ cameraError' = NoCameraError
          /\ initCalls' = initCalls + 1

C14_StartFailureSurfaced == [][C14_Step]_vars

C14_Witness ==
    /\ initCalls = 2
    /\ caught = << [name |-> "Error",
                    message |-> <<"Permission", "denied", "by", "system">>],
                   [name |-> "NotFoundError", message |-> <<>>] >>
    /\ cameraError = << "Failed to start camera:", "Unknown error" >>
    /\ ~isCameraReady
    /\ Len(cameras) = 2
    /\ submitted = 0
    /\ mounted

====
